---- MODULE Spec2Model ----
(***************************************************************************)
(* Model of asvspoof2019-master/model_main.py: the script body (argument   *)
(* checks, run directories, eval-only branch, training loop with its       *)
(* catch-all handler), pad (the waveform length fitter) with the sample    *)
(* pipeline around it, and produce_evaluation_file (the score file).       *)
(*                                                                         *)
(* Three specifications share the module:                                  *)
(*   Spec      the script body, one action per statement group             *)
(*   SpecPad   pad and the transform pipeline on bounded waveforms         *)
(*   SpecEval  produce_evaluation_file on bounded datasets                 *)
(***************************************************************************)
EXTENDS Integers, Sequences, FiniteSets, TLC

VARIABLES
    \* ---- script body (__main__) ----
    pc,           \* position in the script
    args,         \* the parsed command line
    modelsRoot,   \* directory 'models' exists
    modelDir,     \* directory models/<model_tag> exists
    ckpts,        \* the k with models/<model_tag>/epoch_k.pth on disk
    logDir,       \* directory logs/<model_tag> exists
    fs0,          \* history: modelDir, ckpts and logDir when the process started
    loaded,       \* model.load_state_dict(torch.load(model_path)) has run
    evalWritten,  \* produce_evaluation_file has written args.eval_output
    epoch,        \* loop variable of "for epoch in range(num_epochs)"
    ii,           \* batches of the current train_epoch call already stepped
    steps,        \* history: the <<epoch, batch>> of every optim.step() taken
    validated,    \* history: epochs whose train_epoch and evaluate_accuracy returned
    caught,       \* history: times the "except:" clause was entered
    raisedAt,     \* history: where the caught exception was raised
    exitCode,     \* "none" while running, else the process exit status
    configError,  \* history: an argument assertion failed
    \* ---- pad and the transform pipeline ----
    wave,         \* the raw waveform x
    max_len,      \* the max_len the call of pad receives
    viaPipeline,  \* pad is called by the transform (pad(x)) or directly
    stage,        \* "idle", "raw", "padded", "normalized", "extracted", "error"
    padOut,       \* what pad returned or raised
    normOut,      \* what librosa.util.normalize returned
    featIn,       \* the waveform handed to feature_fn
    \* ---- produce_evaluation_file ----
    dataset,      \* the samples, in dataset order
    is_eval,      \* dataset.is_eval (blind set)
    evPc,         \* "idle", "start", "loop", "done"
    cursor,       \* samples the DataLoader has already delivered
    fname_list, sys_id_list, key_list, score_list,
    fileLines     \* the lines of save_path

mainVars == <<pc, args, modelsRoot, modelDir, ckpts, logDir, fs0, loaded,
              evalWritten, epoch, ii, steps, validated, caught, raisedAt,
              exitCode, configError>>
padVars  == <<wave, max_len, viaPipeline, stage, padOut, normOut, featIn>>
evalVars == <<dataset, is_eval, evPc, cursor, fname_list, sys_id_list,
              key_list, score_list, fileLines>>
vars     == <<mainVars, padVars, evalVars>>

----------------------------------------------------------------------------
(* Bounds *)

\* largest --num_epochs tried
MaxEpochs == 2
\* batches the train loader yields per epoch
NumBatches == 2
\* longest raw waveform
MaxWaveLen == 4
\* largest max_len handed to pad directly
MaxTarget == 4
\* pad's default max_len (64000 in the source), scaled to the waveforms tried
MaxLenDefault == 3
\* largest dataset scored
MaxSamples == 3
\* produce_evaluation_file's DataLoader batch size (32 in the source), scaled
EvalBatchSize == 2

Min(a, b) == IF a <= b THEN a ELSE b

----------------------------------------------------------------------------
(* The script body *)

FeatureChoices == {"mfcc", "spect", "cqcc"}
TrackChoices   == {"logical", "physical"}

\* argparse results the model distinguishes; "raw" and "speech" stand for any
\* value outside the accepted lists, path arguments are None (FALSE) or given
ArgsSpace ==
    [eval        : BOOLEAN,
     model_path  : BOOLEAN,
     eval_output : BOOLEAN,
     features    : FeatureChoices \cup {"raw"},
     track       : TrackChoices \cup {"speech"},
     num_epochs  : 0..MaxEpochs]

\* what may already be on disk under models/<model_tag> and logs/<model_tag>
DiskSpace ==
    {[modelDir |-> FALSE, ckpts |-> {}, logDir |-> l] : l \in BOOLEAN}
    \cup {[modelDir |-> TRUE, ckpts |-> c, logDir |-> l] :
              c \in SUBSET (0..1), l \in BOOLEAN}

NoRaise == [epoch |-> -1, at |-> "none"]

InitMain ==
    /\ pc = "mkdir_models"
    /\ args \in ArgsSpace
    /\ fs0 \in DiskSpace
    /\ modelsRoot \in {fs0.modelDir, TRUE}
    /\ modelDir = fs0.modelDir
    /\ ckpts = fs0.ckpts
    /\ logDir = fs0.logDir
    /\ loaded = FALSE
    /\ evalWritten = FALSE
    /\ epoch = 0
    /\ ii = 0
    /\ steps = <<>>
    /\ validated = {}
    /\ caught = 0
    /\ raisedAt = NoRaise
    /\ exitCode = "none"
    /\ configError = FALSE

\* the frozen script state used by SpecPad and SpecEval
IdleMain ==
    /\ pc = "idle"
    /\ args = [eval |-> FALSE, model_path |-> FALSE, eval_output |-> FALSE,
               features |-> "spect", track |-> "physical", num_epochs |-> 0]
    /\ fs0 = [modelDir |-> FALSE, ckpts |-> {}, logDir |-> FALSE]
    /\ modelsRoot = FALSE
    /\ modelDir = FALSE
    /\ ckpts = {}
    /\ logDir = FALSE
    /\ loaded = FALSE
    /\ evalWritten = FALSE
    /\ epoch = 0
    /\ ii = 0
    /\ steps = <<>>
    /\ validated = {}
    /\ caught = 0
    /\ raisedAt = NoRaise
    /\ exitCode = "none"
    /\ configError = FALSE

\* an exception no handler catches: traceback, exit status 1
Uncaught ==
    /\ pc' = "exited"
    /\ exitCode' = "1"

\* lines 206-208: os.mkdir('models') when absent, then parse_args
MkdirModels ==
    /\ pc = "mkdir_models"
    /\ modelsRoot' = TRUE
    /\ pc' = "assert_features"
    /\ UNCHANGED <<args, modelDir, ckpts, logDir, fs0, loaded, evalWritten,
                   epoch, ii, steps, validated, caught, raisedAt, exitCode,
                   configError>>
    /\ UNCHANGED <<padVars, evalVars>>

\* line 210: assert args.features in ['mfcc', 'spect', 'cqcc']
AssertFeatures ==
    /\ pc = "assert_features"
    /\ IF args.features \in FeatureChoices
          THEN /\ pc' = "assert_track"
               /\ UNCHANGED <<exitCode, configError>>
          ELSE /\ Uncaught
               /\ configError' = TRUE
    /\ UNCHANGED <<args, modelsRoot, modelDir, ckpts, logDir, fs0, loaded,
                   evalWritten, epoch, ii, steps, validated, caught, raisedAt>>
    /\ UNCHANGED <<padVars, evalVars>>

\* lines 211-218: model_tag, model_save_path, assert track in ['logical', 'physical']
AssertTrack ==
    /\ pc = "assert_track"
    /\ IF args.track \in TrackChoices
          THEN /\ pc' = "mkdir_run"
               /\ UNCHANGED <<exitCode, configError>>
          ELSE /\ Uncaught
               /\ configError' = TRUE
    /\ UNCHANGED <<args, modelsRoot, modelDir, ckpts, logDir, fs0, loaded,
                   evalWritten, epoch, ii, steps, validated, caught, raisedAt>>
    /\ UNCHANGED <<padVars, evalVars>>

\* lines 220-221: os.mkdir(model_save_path) when absent, whatever the mode
MkdirRun ==
    /\ pc = "mkdir_run"
    /\ modelDir' = TRUE
    /\ pc' = "build"
    /\ UNCHANGED <<args, modelsRoot, ckpts, logDir, fs0, loaded, evalWritten,
                   epoch, ii, steps, validated, caught, raisedAt, exitCode,
                   configError>>
    /\ UNCHANGED <<padVars, evalVars>>

\* lines 223-260: feature_fn, model_cls, transforms, dev_set, dev_loader, model
Build ==
    /\ pc = "build"
    /\ pc' = "load"
    /\ UNCHANGED <<args, modelsRoot, modelDir, ckpts, logDir, fs0, loaded,
                   evalWritten, epoch, ii, steps, validated, caught, raisedAt,
                   exitCode, configError>>
    /\ UNCHANGED <<padVars, evalVars>>

\* lines 262-264: if args.model_path: model.load_state_dict(torch.load(...))
LoadModel ==
    /\ pc = "load"
    /\ loaded' = args.model_path
    /\ pc' = "branch"
    /\ UNCHANGED <<args, modelsRoot, modelDir, ckpts, logDir, fs0,
                   evalWritten, epoch, ii, steps, validated, caught, raisedAt,
                   exitCode, configError>>
    /\ UNCHANGED <<padVars, evalVars>>

\* line 266: if args.eval
Branch ==
    /\ pc = "branch"
    /\ pc' = IF args.eval THEN "assert_eval_output" ELSE "train_set"
    /\ UNCHANGED <<args, modelsRoot, modelDir, ckpts, logDir, fs0, loaded,
                   evalWritten, epoch, ii, steps, validated, caught, raisedAt,
                   exitCode, configError>>
    /\ UNCHANGED <<padVars, evalVars>>

\* line 267: assert args.eval_output is not None
AssertEvalOutput ==
    /\ pc = "assert_eval_output"
    /\ IF args.eval_output
          THEN /\ pc' = "assert_model_path"
               /\ UNCHANGED <<exitCode, configError>>
          ELSE /\ Uncaught
               /\ configError' = TRUE
    /\ UNCHANGED <<args, modelsRoot, modelDir, ckpts, logDir, fs0, loaded,
                   evalWritten, epoch, ii, steps, validated, caught, raisedAt>>
    /\ UNCHANGED <<padVars, evalVars>>

\* line 268: assert args.model_path is not None
AssertModelPath ==
    /\ pc = "assert_model_path"
    /\ IF args.model_path
          THEN /\ pc' = "score_eval"
               /\ UNCHANGED <<exitCode, configError>>
          ELSE /\ Uncaught
               /\ configError' = TRUE
    /\ UNCHANGED <<args, modelsRoot, modelDir, ckpts, logDir, fs0, loaded,
                   evalWritten, epoch, ii, steps, validated, caught, raisedAt>>
    /\ UNCHANGED <<padVars, evalVars>>

\* line 269: produce_evaluation_file(dev_set, model, device, args.eval_output)
ScoreEval ==
    /\ pc = "score_eval"
    /\ evalWritten' = TRUE
    /\ pc' = "sys_exit"
    /\ UNCHANGED <<args, modelsRoot, modelDir, ckpts, logDir, fs0, loaded,
                   epoch, ii, steps, validated, caught, raisedAt, exitCode,
                   configError>>
    /\ UNCHANGED <<padVars, evalVars>>

\* after line 269 with line 270 missing: execution falls into the training path
FallIntoTraining ==
    /\ pc = "sys_exit"
    /\ pc' = "train_set"
    /\ UNCHANGED <<args, modelsRoot, modelDir, ckpts, logDir, fs0, loaded,
                   evalWritten, epoch, ii, steps, validated, caught, raisedAt,
                   exitCode, configError>>
    /\ UNCHANGED <<padVars, evalVars>>

\* line 270: sys.exit(0)
SysExit ==
    /\ pc = "sys_exit"
    /\ pc' = "exited"
    /\ exitCode' = "0"
    /\ UNCHANGED <<args, modelsRoot, modelDir, ckpts, logDir, fs0, loaded,
                   evalWritten, epoch, ii, steps, validated, caught, raisedAt,
                   configError>>
    /\ UNCHANGED <<padVars, evalVars>>

\* lines 223-280 outside the try: a malformed dataset, a missing checkpoint
\* file or a failing scoring pass raises, and nothing catches it
SetupRaises ==
    /\ \/ pc \in {"build", "score_eval", "train_set"}
       \/ pc = "load" /\ args.model_path
    /\ Uncaught
    /\ UNCHANGED <<args, modelsRoot, modelDir, ckpts, logDir, fs0, loaded,
                   evalWritten, epoch, ii, steps, validated, caught, raisedAt,
                   configError>>
    /\ UNCHANGED <<padVars, evalVars>>

\* lines 272-280: train_set, train_loader, num_epochs
TrainSet ==
    /\ pc = "train_set"
    /\ pc' = "open_logs"
    /\ UNCHANGED <<args, modelsRoot, modelDir, ckpts, logDir, fs0, loaded,
                   evalWritten, epoch, ii, steps, validated, caught, raisedAt,
                   exitCode, configError>>
    /\ UNCHANGED <<padVars, evalVars>>

\* lines 282-284: SummaryWriter and get_logger create and open logs/<model_tag>
OpenLogs ==
    /\ pc = "open_logs"
    /\ logDir' = TRUE
    /\ epoch' = 0
    /\ pc' = "for"
    /\ UNCHANGED <<args, modelsRoot, modelDir, ckpts, fs0, loaded,
                   evalWritten, ii, steps, validated, caught, raisedAt,
                   exitCode, configError>>
    /\ UNCHANGED <<padVars, evalVars>>

\* line 286: for epoch in range(num_epochs)
ForEpoch ==
    /\ pc = "for"
    /\ IF epoch < args.num_epochs
          THEN pc' = "train_epoch" /\ ii' = 0
          ELSE pc' = "end" /\ UNCHANGED ii
    /\ UNCHANGED <<args, modelsRoot, modelDir, ckpts, logDir, fs0, loaded,
                   evalWritten, epoch, steps, validated, caught, raisedAt,
                   exitCode, configError>>
    /\ UNCHANGED <<padVars, evalVars>>

\* lines 126-152: one batch of train_epoch, ending in optim.step() and logger.info
TrainBatch ==
    /\ pc = "train_epoch"
    /\ ii < NumBatches
    /\ ii' = ii + 1
    /\ steps' = Append(steps, <<epoch, ii>>)
    /\ UNCHANGED <<pc, args, modelsRoot, modelDir, ckpts, logDir, fs0, loaded,
                   evalWritten, epoch, validated, caught, raisedAt, exitCode,
                   configError>>
    /\ UNCHANGED <<padVars, evalVars>>

\* lines 154-156 and 287-289: train_epoch returns running_loss, train_accuracy
TrainReturn ==
    /\ pc = "train_epoch"
    /\ ii = NumBatches
    /\ pc' = "evaluate"
    /\ UNCHANGED <<args, modelsRoot, modelDir, ckpts, logDir, fs0, loaded,
                   evalWritten, epoch, ii, steps, validated, caught, raisedAt,
                   exitCode, configError>>
    /\ UNCHANGED <<padVars, evalVars>>

\* line 290: valid_accuracy = evaluate_accuracy(dev_loader, model, device)
Evaluate ==
    /\ pc = "evaluate"
    /\ validated' = validated \cup {epoch}
    /\ pc' = "log_epoch"
    /\ UNCHANGED <<args, modelsRoot, modelDir, ckpts, logDir, fs0, loaded,
                   evalWritten, epoch, ii, steps, caught, raisedAt, exitCode,
                   configError>>
    /\ UNCHANGED <<padVars, evalVars>>

\* lines 291-297: writer.add_scalar x3, logger.info
LogEpoch ==
    /\ pc = "log_epoch"
    /\ pc' = "save"
    /\ UNCHANGED <<args, modelsRoot, modelDir, ckpts, logDir, fs0, loaded,
                   evalWritten, epoch, ii, steps, validated, caught, raisedAt,
                   exitCode, configError>>
    /\ UNCHANGED <<padVars, evalVars>>

\* torch.save under the name of the epoch about to start
SaveCheckpointAhead ==
    /\ pc = "save"
    /\ ckpts' = ckpts \cup {epoch + 1}
    /\ epoch' = epoch + 1
    /\ pc' = "for"
    /\ UNCHANGED <<args, modelsRoot, modelDir, logDir, fs0, loaded,
                   evalWritten, ii, steps, validated, caught, raisedAt,
                   exitCode, configError>>
    /\ UNCHANGED <<padVars, evalVars>>

\* lines 298-300: torch.save(model.state_dict(), <model_save_path>/epoch_<epoch>.pth)
SaveCheckpoint ==
    /\ pc = "save"
    /\ ckpts' = ckpts \cup {epoch}
    /\ epoch' = epoch + 1
    /\ pc' = "for"
    /\ UNCHANGED <<args, modelsRoot, modelDir, logDir, fs0, loaded,
                   evalWritten, ii, steps, validated, caught, raisedAt,
                   exitCode, configError>>
    /\ UNCHANGED <<padVars, evalVars>>

LoopSteps == {"train_epoch", "evaluate", "log_epoch", "save"}

\* lines 285-302: a statement of the loop body raises and the bare "except:"
\* takes it; a torch.save that raises may leave its file behind
RaiseInLoop ==
    /\ pc \in LoopSteps
    /\ caught' = caught + 1
    /\ raisedAt' = [epoch |-> epoch, at |-> pc]
    /\ IF pc = "save"
          THEN ckpts' \in {ckpts, ckpts \cup {epoch}}
          ELSE UNCHANGED ckpts
    /\ pc' = "rmtree_logs"
    /\ UNCHANGED <<args, modelsRoot, modelDir, logDir, fs0, loaded,
                   evalWritten, epoch, ii, steps, validated, exitCode,
                   configError>>
    /\ UNCHANGED <<padVars, evalVars>>

\* line 303: shutil.rmtree('logs/<model_tag>')
RmtreeLogs ==
    /\ pc = "rmtree_logs"
    /\ logDir' = FALSE
    /\ pc' = "rmtree_models"
    /\ UNCHANGED <<args, modelsRoot, modelDir, ckpts, fs0, loaded,
                   evalWritten, epoch, ii, steps, validated, caught, raisedAt,
                   exitCode, configError>>
    /\ UNCHANGED <<padVars, evalVars>>

\* a handler that forgets the model directory
RmtreeModelsSkipped ==
    /\ pc = "rmtree_models"
    /\ pc' = "end"
    /\ UNCHANGED <<args, modelsRoot, modelDir, ckpts, logDir, fs0, loaded,
                   evalWritten, epoch, ii, steps, validated, caught, raisedAt,
                   exitCode, configError>>
    /\ UNCHANGED <<padVars, evalVars>>

\* line 304: shutil.rmtree('models/<model_tag>')
RmtreeModels ==
    /\ pc = "rmtree_models"
    /\ modelDir' = FALSE
    /\ ckpts' = {}
    /\ pc' = "end"
    /\ UNCHANGED <<args, modelsRoot, logDir, fs0, loaded, evalWritten, epoch,
                   ii, steps, validated, caught, raisedAt, exitCode,
                   configError>>
    /\ UNCHANGED <<padVars, evalVars>>

\* after line 304, or after the loop: the script ends, exit status 0
ScriptEnd ==
    /\ pc = "end"
    /\ pc' = "exited"
    /\ exitCode' = "0"
    /\ UNCHANGED <<args, modelsRoot, modelDir, ckpts, logDir, fs0, loaded,
                   evalWritten, epoch, ii, steps, validated, caught, raisedAt,
                   configError>>
    /\ UNCHANGED <<padVars, evalVars>>

----------------------------------------------------------------------------
(* pad and the transform pipeline *)

SampleValues == {-1, 0, 2}

Waveforms == UNION {[1..n -> SampleValues] : n \in 0..MaxWaveLen}

Returned(v) == [kind |-> "value", value |-> v]
Raised(e)   == [kind |-> e, value |-> <<>>]
NoResult    == [kind |-> "none", value |-> <<>>]

\* s[:n] for n >= 0
Slice(s, n) == SubSeq(s, 1, Min(n, Len(s)))

\* (max_len / x_len) without the "+ 1"
num_repeats_no_plus_one(ml, x_len) == <<ml, x_len>>

\* ceil(max_len / x_len) + 1
num_repeats_ceil(ml, x_len) == <<((ml + x_len - 1) \div x_len) + 1, 1>>

\* line 57: num_repeats = (max_len / x_len) + 1, the quotient kept exact as the
\* fraction <<numerator, denominator>> (x_len > 0)
num_repeats(ml, x_len) == <<ml + x_len, x_len>>

\* line 58: np.repeat converts its repeats argument to an integer count by
\* dropping the fractional part (the value is positive)
as_intp(q) == q[1] \div q[2]

\* line 58: np.repeat(x, r), every element r times in a row
np_repeat(x, r) == [i \in 1..(Len(x) * r) |-> x[((i - 1) \div r) + 1]]

\* lines 52-60; line 57 divides by x_len and raises ZeroDivisionError at 0
pad(x, ml) ==
    IF Len(x) >= ml
       THEN Returned(Slice(x, ml))
       ELSE IF Len(x) = 0
               THEN Raised("ZeroDivisionError")
               ELSE Returned(Slice(np_repeat(x, as_intp(num_repeats(ml, Len(x)))), ml))

Abs(v) == IF v < 0 THEN -v ELSE v

RECURSIVE Peak(_)
Peak(s) == IF Len(s) = 0 THEN 0
           ELSE LET p == Peak(Tail(s)) IN IF Abs(Head(s)) > p THEN Abs(Head(s)) ELSE p

\* line 246: librosa.util.normalize(x), every sample over the peak magnitude (a
\* fraction <<sample, peak>>); an all-zero waveform is left as it is
normalize(s) ==
    LET p == Peak(s) IN [i \in 1..Len(s) |-> <<s[i], IF p = 0 THEN 1 ELSE p>>]

InitPad ==
    /\ wave \in Waveforms
    /\ viaPipeline \in BOOLEAN
    /\ max_len \in IF viaPipeline THEN {MaxLenDefault} ELSE 0..MaxTarget
    /\ stage = "raw"
    /\ padOut = NoResult
    /\ normOut = <<>>
    /\ featIn = <<>>

IdlePad ==
    /\ wave = <<>>
    /\ viaPipeline = FALSE
    /\ max_len = 0
    /\ stage = "idle"
    /\ padOut = NoResult
    /\ normOut = <<>>
    /\ featIn = <<>>

\* lines 52-60: pad(x, max_len) called with an explicit max_len
CallPad ==
    /\ stage = "raw"
    /\ ~viaPipeline
    /\ padOut' = pad(wave, max_len)
    /\ stage' = IF padOut'.kind = "value" THEN "padded" ELSE "error"
    /\ UNCHANGED <<wave, max_len, viaPipeline, normOut, featIn>>
    /\ UNCHANGED <<mainVars, evalVars>>

\* line 246: lambda x: pad(x), max_len left at its default
TransformPad ==
    /\ stage = "raw"
    /\ viaPipeline
    /\ padOut' = pad(wave, MaxLenDefault)
    /\ stage' = IF padOut'.kind = "value" THEN "padded" ELSE "error"
    /\ UNCHANGED <<wave, max_len, viaPipeline, normOut, featIn>>
    /\ UNCHANGED <<mainVars, evalVars>>

\* line 246: lambda x: librosa.util.normalize(x)
TransformNormalize ==
    /\ stage = "padded"
    /\ viaPipeline
    /\ normOut' = normalize(padOut.value)
    /\ stage' = "normalized"
    /\ UNCHANGED <<wave, max_len, viaPipeline, padOut, featIn>>
    /\ UNCHANGED <<mainVars, evalVars>>

\* line 247: lambda x: feature_fn(x) receives the normalised waveform
TransformFeature ==
    /\ stage = "normalized"
    /\ featIn' = normOut
    /\ stage' = "extracted"
    /\ UNCHANGED <<wave, max_len, viaPipeline, padOut, normOut>>
    /\ UNCHANGED <<mainVars, evalVars>>

----------------------------------------------------------------------------
(* produce_evaluation_file *)

\* the two-logit outputs the network may give a sample
Logits == {<<0, 1>>, <<2, 0>>}

SysIds == 0..1

\* line 103: dataset.sysid_dict_inv, system-id index to its name
sysid_dict_inv == [s \in SysIds |-> IF s = 0 THEN "-" ELSE "A01"]

Meta == [sysid : SysIds, key : 0..1, out : Logits]

\* sample i carries its own file name i
Datasets ==
    UNION {{[i \in 1..n |-> [fname |-> i, sysid |-> m[i].sysid,
                             key |-> m[i].key, out |-> m[i].out]] :
                m \in [1..n -> Meta]} : n \in 0..MaxSamples}

InitEval ==
    /\ dataset \in Datasets
    /\ is_eval \in BOOLEAN
    /\ evPc = "start"
    /\ cursor = 0
    /\ fname_list = <<>>
    /\ sys_id_list = <<>>
    /\ key_list = <<>>
    /\ score_list = <<>>
    /\ fileLines = <<>>

IdleEval ==
    /\ dataset = <<>>
    /\ is_eval = FALSE
    /\ evPc = "idle"
    /\ cursor = 0
    /\ fname_list = <<>>
    /\ sys_id_list = <<>>
    /\ key_list = <<>>
    /\ score_list = <<>>
    /\ fileLines = <<>>

\* batch_out[:, 0] - batch_out[:, 1]
batch_score_swapped(batch) == [i \in 1..Len(batch) |-> batch[i].out[1] - batch[i].out[2]]

\* lines 93-95: batch_score = batch_out[:, 1] - batch_out[:, 0]
batch_score(batch) == [i \in 1..Len(batch) |-> batch[i].out[2] - batch[i].out[1]]

\* line 100: 'bonafide' if key == 1 else 'spoof'
key_name(k) == IF k = 1 THEN "bonafide" ELSE "spoof"

\* lines 109 and 111: the fields '{} {} {} {}' or '{} {}' joins with blanks
format_line(f, s, k, cm) == IF ~is_eval THEN <<f, s, k, cm>> ELSE <<f, cm>>

\* lines 79-88: DataLoader(dataset, batch_size, shuffle=False), empty lists
EvalStart ==
    /\ evPc = "start"
    /\ evPc' = "loop"
    /\ cursor' = 0
    /\ fname_list' = <<>>
    /\ sys_id_list' = <<>>
    /\ key_list' = <<>>
    /\ score_list' = <<>>
    /\ UNCHANGED <<dataset, is_eval, fileLines>>
    /\ UNCHANGED <<mainVars, padVars>>

\* lines 89-104: the next batch, in dataset order, appended to the four lists
EvalBatch ==
    /\ evPc = "loop"
    /\ cursor < Len(dataset)
    /\ LET last  == Min(cursor + EvalBatchSize, Len(dataset))
           batch == SubSeq(dataset, cursor + 1, last)
       IN  /\ fname_list' = fname_list \o [i \in 1..Len(batch) |-> batch[i].fname]
           /\ key_list' = key_list \o [i \in 1..Len(batch) |-> key_name(batch[i].key)]
           /\ sys_id_list' = sys_id_list
                               \o [i \in 1..Len(batch) |-> sysid_dict_inv[batch[i].sysid]]
           /\ score_list' = score_list \o batch_score(batch)
           /\ cursor' = last
    /\ UNCHANGED <<dataset, is_eval, evPc, fileLines>>
    /\ UNCHANGED <<mainVars, padVars>>

\* lines 106-112: one line per element of zip(fname_list, sys_id_list, key_list,
\* score_list), which stops at the shortest list
WriteFile ==
    /\ evPc = "loop"
    /\ cursor = Len(dataset)
    /\ LET n == Min(Min(Len(fname_list), Len(sys_id_list)),
                    Min(Len(key_list), Len(score_list)))
       IN  fileLines' = [i \in 1..n |-> format_line(fname_list[i], sys_id_list[i],
                                                    key_list[i], score_list[i])]
    /\ evPc' = "done"
    /\ UNCHANGED <<dataset, is_eval, cursor, fname_list, sys_id_list, key_list,
                   score_list>>
    /\ UNCHANGED <<mainVars, padVars>>

----------------------------------------------------------------------------
(* Specifications *)

Init == InitMain /\ IdlePad /\ IdleEval

Next ==
    \/ MkdirModels
    \/ AssertFeatures
    \/ AssertTrack
    \/ MkdirRun
    \/ Build
    \/ LoadModel
    \/ Branch
    \/ AssertEvalOutput
    \/ AssertModelPath
    \/ ScoreEval
    \/ SysExit
    \/ SetupRaises
    \/ TrainSet
    \/ OpenLogs
    \/ ForEpoch
    \/ TrainBatch
    \/ TrainReturn
    \/ Evaluate
    \/ LogEpoch
    \/ SaveCheckpoint
    \/ RaiseInLoop
    \/ RmtreeLogs
    \/ RmtreeModels
    \/ ScriptEnd

Spec == Init /\ [][Next]_vars

InitPadSpec == IdleMain /\ InitPad /\ IdleEval

NextPad ==
    \/ CallPad
    \/ TransformPad
    \/ TransformNormalize
    \/ TransformFeature

SpecPad == InitPadSpec /\ [][NextPad]_vars

InitEvalSpec == IdleMain /\ IdlePad /\ InitEval

NextEval ==
    \/ EvalStart
    \/ EvalBatch
    \/ WriteFile

SpecEval == InitEvalSpec /\ [][NextEval]_vars

----------------------------------------------------------------------------
(* Claims about the script body, checked under Spec *)

TrainingMode == ~args.eval

\* the catch-all handler has run to its end
Handled == caught > 0 /\ pc \in {"end", "exited"}

\* C1: in training mode, whatever the epoch and whatever the step of the loop
\* body that raised (training pass, validation pass, metric/log emission,
\* checkpoint write), once the handler has finished both logs/<model_tag> and
\* models/<model_tag> are gone, the checkpoints of earlier epochs with them.
C1_FailureRemovesRunDirs ==
    (TrainingMode /\ Handled) => (~logDir /\ ~modelDir /\ ckpts = {})

\* an epoch-1 checkpoint write raised after epoch 0 was saved, and was handled
C1_Witness ==
    /\ TrainingMode
    /\ Handled
    /\ raisedAt = [epoch |-> 1, at |-> "save"]
    /\ 0 \in validated
    /\ ~logDir /\ ~modelDir

\* the run started without models/<model_tag> and no exception was raised in the loop
FreshUnfailedRun == TrainingMode /\ ~fs0.modelDir /\ caught = 0

NormalCompletion == pc \in {"end", "exited"} /\ caught = 0 /\ exitCode # "1"

\* C2 as stated: in a training run started without models/<model_tag> and not
\* failed, the checkpoints on disk are exactly those of the epochs whose
\* training pass and validation pass have both completed, and after normal
\* completion they are epoch_0 .. epoch_{N-1}.
C2_CheckpointsAreValidatedEpochs ==
    FreshUnfailedRun =>
        /\ ckpts = validated
        /\ (NormalCompletion => ckpts = 0..(args.num_epochs - 1))

\* C2 amended: in a training run started without models/<model_tag> and not
\* failed, the checkpoints on disk are exactly those of the epochs whose whole
\* loop iteration (training pass, validation pass, metric/log emission and
\* checkpoint write) has completed, i.e. the epochs below the loop variable;
\* the epoch in progress and later ones have none, and after normal completion
\* they are epoch_0 .. epoch_{N-1}.
C2_CheckpointsAreFinishedIterations ==
    FreshUnfailedRun =>
        /\ ckpts = 0..(epoch - 1)
        /\ ckpts \subseteq validated
        /\ \A k \in epoch..MaxEpochs : k \notin ckpts
        /\ (NormalCompletion => ckpts = 0..(args.num_epochs - 1))

\* a fresh two-epoch run has ended normally with both checkpoints on disk
C2_Witness ==
    /\ FreshUnfailedRun
    /\ pc = "exited"
    /\ exitCode = "0"
    /\ args.num_epochs = 2
    /\ ckpts = {0, 1}

\* C3: when a configuration error (invalid --features, invalid --track, eval
\* mode without --eval_output or without --model_path) is reported, this
\* invocation has created neither models/<model_tag> nor logs/<model_tag>.
C3_ConfigErrorBeforeRunDirs ==
    configError => (modelDir = fs0.modelDir /\ logDir = fs0.logDir)

NoStepRepeated ==
    \A i, j \in 1..Len(steps) : (i # j) => (steps[i] # steps[j])

\* C4: an exception raised in the epoch loop is caught exactly once, no epoch
\* or batch is run again, and after the cleanup the process ends with a
\* non-success exit status.
C4_FailureExitsNonZero ==
    (caught > 0 /\ pc = "exited") =>
        (caught = 1 /\ NoStepRepeated /\ exitCode # "0")

\* C5: an eval-only invocation (--eval) leaves models/<model_tag> and
\* logs/<model_tag> as it found them from start to end, on success or on an
\* evaluation error, and runs no cleanup.
C5_EvalLeavesRunDirsAlone ==
    args.eval =>
        /\ modelDir = fs0.modelDir
        /\ ckpts = fs0.ckpts
        /\ logDir = fs0.logDir
        /\ caught = 0

TrainingPositions ==
    {"train_set", "open_logs", "for", "train_epoch", "evaluate", "log_epoch",
     "save", "rmtree_logs", "rmtree_models", "end"}

\* C6: an eval-only invocation with --model_path and --eval_output loads the
\* checkpoint, then runs the scoring pass, then exits; it never enters the
\* training path: no epoch is trained or validated, no optimizer step is taken
\* and no checkpoint is written.
C6_EvalOnlyNeverTrains ==
    (args.eval /\ args.model_path /\ args.eval_output) =>
        /\ pc \notin TrainingPositions
        /\ steps = <<>>
        /\ validated = {}
        /\ ckpts = fs0.ckpts
        /\ (evalWritten => loaded /\ pc \in {"sys_exit", "exited"})
        /\ (exitCode = "0" => evalWritten)

\* the eval-only run has loaded, scored and exited with status 0
C6_Witness ==
    /\ args.eval /\ args.model_path /\ args.eval_output
    /\ loaded
    /\ evalWritten
    /\ pc = "exited"
    /\ exitCode = "0"

----------------------------------------------------------------------------
(* Claims about produce_evaluation_file, checked under SpecEval *)

\* C7: the score file has exactly one line per sample, in dataset order; line
\* i holds sample i's own file name, system id name, key ('bonafide' for label
\* 1, else 'spoof') and score logit[1] - logit[0], as 'filename sysid key
\* score' for a labelled set and 'filename score' for a blind one.
C7_OneLinePerSample ==
    (evPc = "done") =>
        /\ Len(fileLines) = Len(dataset)
        /\ \A i \in 1..Len(dataset) :
              LET d     == dataset[i]
                  score == d.out[2] - d.out[1]
                  key   == IF d.key = 1 THEN "bonafide" ELSE "spoof"
              IN  fileLines[i] = IF is_eval
                                    THEN <<d.fname, score>>
                                    ELSE <<d.fname, sysid_dict_inv[d.sysid], key, score>>

\* a labelled dataset spanning more than one batch, with both keys, was written
C7_Witness ==
    /\ evPc = "done"
    /\ ~is_eval
    /\ Len(dataset) > EvalBatchSize
    /\ \E i, j \in 1..Len(dataset) : dataset[i].key = 1 /\ dataset[j].key = 0
    /\ Len(fileLines) = Len(dataset)

----------------------------------------------------------------------------
(* Claims about pad, checked under SpecPad *)

PadCalled == stage \in {"padded", "normalized", "extracted", "error"}

\* C8: for every non-empty waveform and every target length, shorter or
\* longer than the waveform, pad returns a waveform of exactly the target
\* length, so what the pipeline hands to the feature extractor has exactly
\* the default length.
C8_PadLengthExact ==
    (PadCalled /\ Len(wave) > 0) =>
        /\ padOut.kind = "value"
        /\ Len(padOut.value) = max_len
        /\ (stage = "extracted" => Len(featIn) = MaxLenDefault)

\* the pipeline has fed the extractor a waveform that was shorter than the
\* default length and not a divisor of it
C8_Witness ==
    /\ stage = "extracted"
    /\ Len(wave) = 2
    /\ MaxLenDefault % 2 = 1
    /\ Len(featIn) = MaxLenDefault

\* C9: pad on an empty waveform fails with an explicit EmptyInput error; it
\* neither divides by zero nor returns a value.
C9_EmptyInputError ==
    (PadCalled /\ Len(wave) = 0) => padOut.kind = "EmptyInput"

Shorter == PadCalled /\ 0 < Len(wave) /\ Len(wave) < max_len

CeilDiv(a, b) == (a + b - 1) \div b

\* C10 as stated: for 0 < len(x) < target, output[i] = x[i div r] for every i
\* below the target, with r = ceil(target / len(x)) + 1.
C10_RepeatFactorCeil ==
    Shorter =>
        /\ padOut.kind = "value"
        /\ Len(padOut.value) = max_len
        /\ LET r == CeilDiv(max_len, Len(wave)) + 1
           IN  \A i \in 0..(max_len - 1) : padOut.value[i + 1] = wave[(i \div r) + 1]

\* C10 amended: for 0 < len(x) < target, output[i] = x[i div r] for every i
\* below the target, with r = floor(target / len(x)) + 1 (each sample r times
\* in a row, the array not tiled).
C10_RepeatFactorFloor ==
    Shorter =>
        /\ padOut.kind = "value"
        /\ Len(padOut.value) = max_len
        /\ LET r == (max_len \div Len(wave)) + 1
           IN  \A i \in 0..(max_len - 1) : padOut.value[i + 1] = wave[(i \div r) + 1]

\* a two-sample waveform of different values was stretched to length three
C10_Witness ==
    /\ stage = "padded"
    /\ Len(wave) = 2
    /\ max_len = 3
    /\ wave[1] # wave[2]
    /\ padOut.value = <<wave[1], wave[1], wave[2]>>

====
